---------------------------- MODULE Spec2Model ----------------------------
(***************************************************************************)
(* The Safe action provider (agentkit/typescript/agentkit/src/             *)
(* action-providers/safe) and the websocket server that runs its agents     *)
(* (backend/src).                                                           *)
(*                                                                         *)
(* One call of analyze_transaction is modelled as a state machine whose    *)
(* steps are the sections of analyzeTransaction and riskAnalysis, each     *)
(* ending at (and including) the awaits it issues.  The answer of every    *)
(* external call (Safe.init, getOwners, getPendingTransactions,            *)
(* reputation, getBalance, getCode, getChainId, fetch) is drawn from a     *)
(* small set that always contains the failure of the call, which in the    *)
(* code is a rejected promise, i.e. a thrown error.                        *)
(*                                                                         *)
(* Spec is one call of analyze_transaction.  SpecRepeated lets the action  *)
(* be called a second time with the same arguments once the first call     *)
(* returned: every lookup made before answers as it did, so that the two   *)
(* results can be compared.                                                *)
(*                                                                         *)
(* SpecProvider is one call of any of the twelve actions of the provider,  *)
(* stepping from await to await.  SpecSessions is two such calls           *)
(* interleaved at their awaits, made by the two handlers of one socket     *)
(* (one provider object) or by handlers of two sockets (two provider       *)
(* objects).  SpecServer is the connection handler of the websocket server *)
(* and the agents map, with every await settled in the end.                *)
(***************************************************************************)
EXTENDS Integers, Sequences, FiniteSets, TLC

VARIABLES
    pc,                 \* position of the call in analyzeTransaction / riskAnalysis
    args,               \* arguments of the call: safeAddress, safeTxHash
    apiKey,             \* process.env.ETHERSCAN_API_KEY is set
    safeClient,         \* SafeActionProvider.safeClient: address it is connected to
    owners,             \* owners returned by safeClient.getOwners()
    tx,                 \* the pending transaction found by hash
    actionDescription,  \* [base, notes]: the description line and its appended notes
    riskFactors,        \* the ordered list of risk findings
    balance,            \* answer of provider.getBalance, NoBalance before the read
    isContract,         \* local isContract of riskAnalysis
    explorer,           \* answer of the explorer lookup, None while not made
    report,             \* value returned by riskAnalysis
    result,             \* string returned by analyzeTransaction
    calls,              \* external calls issued so far by the call, in order
    answers,            \* what each external lookup has answered so far
    repeated,           \* the action has been called a second time
    previous,           \* what the first call returned, once there is a second
    safes,              \* the Safes on chain: owners and threshold of each
    clients,            \* SafeActionProvider.safeClient of each session's provider
    inflight,           \* the action calls of the sessions' agents
    agents,             \* services/agent.ts: the socket ids held by the agents map
    sockets             \* websocket/index.ts: each socket and its connection handler

\* the state of one call of analyze_transaction
analysisVars ==
    <<pc, args, apiKey, safeClient, owners, tx, actionDescription, riskFactors,
      balance, isContract, explorer, report, result, calls, answers, repeated,
      previous>>
\* the state of the providers of the sessions and of the calls of their actions
providerVars == <<safes, clients, inflight>>
\* the state of the websocket server
serverVars == <<agents, sockets>>

vars == <<analysisVars, providerVars, serverVars>>

-----------------------------------------------------------------------------
(* Bounds of the model *)

\* largest tx.value, in wei
MaxValue == 4
\* largest Safe balance, in wei
MaxBalance == 7
\* longest decoded parameter list
MaxParams == 3
\* bits of the floating-point significand (53 in an IEEE double; scaled down
\* together with the wei amounts so that amounts beyond 2^MantissaBits exist)
MantissaBits == 2

-----------------------------------------------------------------------------
(* Values *)

None == "none"
Undefined == "undefined"
Failure == "failure"
NoBalance == 0 - 1

SafeAddress == "0xsafe"
\* "0xAA" is the checksummed spelling of the address "0xaa"; decoded parameter
\* values may spell an address either way
Addresses == {"0xAA", "0xbb"}
NoAddress == ""
Hashes == {"h1", "h2"}
OwnerLists == {<<"0xAA", "0xcc">>}
Scores == {5, 19, 20, 80}

\* an address comparison that keeps the case
toLowerCase_caseSensitive(a) == a

\* String.prototype.toLowerCase on the address spellings of the model
toLowerCase(a) == IF a = "0xAA" THEN "0xaa" ELSE a

\* Method names are sequences of the words they are made of, so that
\* String.prototype.includes("Owner") is computed and not tabulated.
addOwnerWithThreshold == <<"add", "Owner", "With", "Threshold">>
removeOwner == <<"remove", "Owner">>
changeThreshold == <<"change", "Threshold">>
enableModule == <<"enable", "Module">>
transfer == <<"transfer">>
transferOwnership == <<"transfer", "Owner", "ship">>
Methods == {addOwnerWithThreshold, removeOwner, changeThreshold, enableModule,
            transfer, transferOwnership}

includes(method, word) == \E i \in 1..Len(method) : method[i] = word

\* decoded parameters: {name, value}
Param(n, v) == [name |-> n, value |-> v]
ParamSet == {Param("dst", "0xaa"), Param("to", "0xbb"), Param("_threshold", "2")}

RECURSIVE SeqsUpTo(_, _)
SeqsUpTo(S, n) ==
    IF n = 0 THEN {<<>>}
    ELSE LET shorter == SeqsUpTo(S, n - 1)
         IN  shorter \cup {Append(s, x) : s \in shorter, x \in S}

\* tx.dataDecoded.parameters: undefined, or a list of at most MaxParams parameters
NoParameters == [defined |-> FALSE]
Parameters(l) == [defined |-> TRUE, list |-> l]
ParamLists == {NoParameters} \cup {Parameters(l) : l \in SeqsUpTo(ParamSet, MaxParams)}

\* tx.dataDecoded: absent, or {method, parameters}
NoDataDecoded == [present |-> FALSE]
DataDecoded ==
    {NoDataDecoded} \cup
    {[present |-> TRUE, method |-> m, parameters |-> p] : m \in Methods, p \in ParamLists}

\* The pending transactions the directory may hold under hash "h1".
\* value is the decimal string of the API as the integer it spells ("0" is 0).
\* A decoded call implies a non-empty data payload.
PendingTxs ==
    {t \in [safeTxHash : {"h1"}, to : Addresses \cup {NoAddress}, value : 0..MaxValue,
            data : {"0x", "0xdata"}, dataDecoded : DataDecoded,
            proposer : {"0xcc"}, submissionDate : {"2025-02-01T10:00:00Z"},
            confirmations : {<<"0xcc">>}, confirmationsRequired : {2}] :
        t.dataDecoded.present => t.data # "0x"}
NoTx == [safeTxHash |-> None]

-----------------------------------------------------------------------------
(* Floating point: parseFloat and the arithmetic of lines 123-128 *)

\* the spacing of the floating-point numbers around n
RECURSIVE Ulp(_)
Ulp(n) == IF n < 2 ^ MantissaBits THEN 1 ELSE 2 * Ulp(n \div 2)

\* parseFloat of the decimal string spelling the natural number n: the nearest
\* number with a MantissaBits-bit significand, ties to the even significand.
\* Division by 1e18 rescales both sides of the comparison of line 127 alike and
\* is left out: amounts stay in wei.
parseFloat(n) ==
    LET u  == Ulp(n)
        lo == (n \div u) * u
        hi == lo + u
    IN  IF n = lo THEN n
        ELSE IF n - lo < hi - n THEN lo
        ELSE IF n - lo > hi - n THEN hi
        ELSE IF (lo \div u) % 2 = 0 THEN lo ELSE hi

\* line 125: balance ? parseFloat(balance.toString()) / 1e18 : 0
safeBalanceOf(b) == IF b # 0 THEN parseFloat(b) ELSE 0

\* line 127: ethValue > safeBalance * 0.5
IsHighValue(ethValue, safeBalance) == 2 * ethValue > safeBalance

\* line 128: Math.round(ethValue / safeBalance * 100), Infinity on a zero balance
Percent(ethValue, safeBalance) ==
    IF safeBalance = 0 THEN [infinite |-> TRUE]
    ELSE [infinite |-> FALSE, n |-> (200 * ethValue + safeBalance) \div (2 * safeBalance)]

-----------------------------------------------------------------------------
(* Risk findings and description lines *)

\* severity is the sign the message starts with: a warning sign or "HIGH RISK"
ConfigChange == [tag |-> "ConfigChange", severity |-> "warning"]
LowRepOwner(score) ==
    [tag |-> "LowReputationOwner", severity |-> "warning", score |-> score]
HighValue(eth, pct) ==
    [tag |-> "HighValue", severity |-> "warning", eth |-> eth, pct |-> pct]
SelfTransfer == [tag |-> "SelfTransfer", severity |-> "critical"]
DirectEth == [tag |-> "DirectEth", severity |-> "critical"]
NotOwner == [tag |-> "NotOwner", severity |-> "warning"]
LowRepDest(score) ==
    [tag |-> "LowReputationDestination", severity |-> "warning", score |-> score]
Unverified(to) == [tag |-> "Unverified", severity |-> "warning", to |-> to]
\* the line printed in place of an empty finding list (line 225)
NoRisk == [tag |-> "NoSignificantRisk", severity |-> "none"]

\* notes appended to actionDescription.  The two reputation notes are written
\* in a template literal that does not interpolate the score (lines 92, 174).
NoteOwnerHighRep == [tag |-> "OwnerHighReputation"]
NoteIsOwner == [tag |-> "IsSafeOwner"]
NoteDestHighRep == [tag |-> "DestinationHighReputation"]
NoteVerified(name, to) == [tag |-> "Verified", name |-> name, to |-> to]

-----------------------------------------------------------------------------
(* Strings returned to the caller *)

\* utils.ts line 61
NotFoundMessage(hash) ==
    [text |-> <<"Transaction ", hash, " not found in pending transactions.">>]

\* JSON.stringify of a string: the string as a quoted, escaped JSON literal
JSONstringify(s) == [quoted |-> s]

\* safeActionProvider.ts line 1131
FoundMessage(hash, rep) ==
    [text |-> <<"Transaction ", hash, " found in pending transactions: ">>,
     body |-> JSONstringify(rep)]

\* safeActionProvider.ts line 1133
ErrorMessage(detail) ==
    [text |-> <<"Analyze transaction: Error analyzing transaction: ">>,
     error |-> detail]

NoResult == [text |-> <<>>]
NoReport == [kind |-> None]

-----------------------------------------------------------------------------
(* Sessions: sockets, agents, providers and the calls of their actions *)

\* socket ids; websocket/index.ts line 17 makes one agent for each, and
\* agent.ts lines 88-115 give each agent a SafeActionProvider of its own
Sessions == {"s1", "s2"}
\* the two handlers of a socket that run the agent, each of which may have a
\* call of an action in flight
Handlers == {"chat-message", "silent-request"}

\* the address of the agent's wallet (walletProvider.getAddress())
AgentAddress == "0xagent"
OtherSafe == "0xsafe2"
SafeAddresses == {SafeAddress, OtherSafe}
\* a Safe on chain: 1 <= threshold <= number of owners
SafeState(o, t) == [owners |-> o, threshold |-> t]
SignerLists ==
    {<<AgentAddress>>, <<AgentAddress, "0xcc">>, <<"0xcc", "0xdd">>,
     <<AgentAddress, "0xcc", "0xdd">>}
SafeStates == UNION {{SafeState(o, t) : t \in 1..Len(o)} : o \in SignerLists}
\* the Safes the calls are about: the second one is of the agent alone or of
\* two other signers
Worlds ==
    {w \in [SafeAddresses -> SafeStates] :
        w[OtherSafe] \in {SafeState(<<AgentAddress>>, Len(<<AgentAddress>>)),
                          SafeState(<<"0xcc", "0xdd">>, Len(<<"0xcc", "0xdd">>))}}

\* an optional number of a zod schema (newThreshold, amount)
Absent == [present |-> FALSE]
Given(n) == [present |-> TRUE, value |-> n]

\* no transaction object
NoSafeTransaction == [made |-> FALSE]

\* a function of no argument: no Safe, no client, no call, no socket
Nothing == <<>>

\* no action is being called and no Safe is looked at: safes maps the Safes
\* the calls are about, clients the sessions whose provider has a client,
\* inflight the handlers that called an action
ProvidersIdle ==
    /\ safes = Nothing
    /\ clients = Nothing
    /\ inflight = Nothing
\* no socket has connected: sockets maps the sockets that did
ServerIdle ==
    /\ agents = {}
    /\ sockets = Nothing

-----------------------------------------------------------------------------
(* analyzeTransaction and riskAnalysis *)

\* What the services outside the call have answered so far.  The Safe, the
\* chain and the services do not change while the model runs: a lookup that
\* was answered (or rejected) once is answered (or rejected) the same way when
\* it is made again.
Lookups ==
    {"Safe.init", "getOwners", "getPendingTransactions", "reputation(newOwner)",
     "getBalance", "getCode", "reputation(to)", "getChainId", "fetch"}
Unasked == [known |-> FALSE]
Rejected == [known |-> TRUE, ok |-> FALSE]
Answered(v) == [known |-> TRUE, ok |-> TRUE, v |-> v]
\* the answers lookup k can give, S being those of a first request
Ask(k, S) ==
    IF ~answers[k].known THEN S
    ELSE IF answers[k].ok THEN {answers[k].v} ELSE {}
\* lookup k can be rejected
Rejects(k) == IF answers[k].known THEN ~answers[k].ok ELSE TRUE
Tell(k, a) == [answers EXCEPT ![k] = a]

\* no earlier call of the action
NoPrevious == [made |-> FALSE]

\* the locals of riskAnalysis and the values returned, before the call sets them
NoDescription == [base |-> [kind |-> None], notes |-> <<>>]

\* no call of analyze_transaction has been made
InitAnalysis ==
    /\ pc = "idle"
    /\ args = [safeAddress |-> SafeAddress, safeTxHash |-> None]
    /\ apiKey \in BOOLEAN
    /\ safeClient = None
    /\ owners = <<>>
    /\ tx = NoTx
    /\ actionDescription = NoDescription
    /\ riskFactors = <<>>
    /\ balance = NoBalance
    /\ isContract = FALSE
    /\ explorer = None
    /\ report = NoReport
    /\ result = NoResult
    /\ calls = <<>>
    /\ answers = [k \in Lookups |-> Unasked]
    /\ repeated = FALSE
    /\ previous = NoPrevious

Init == InitAnalysis /\ ProvidersIdle /\ ServerIdle

\* a rejected await or a TypeError inside the try of analyzeTransaction:
\* the catch of line 1132 returns the error message
Throw(detail) ==
    /\ pc' = "done"
    /\ result' = ErrorMessage(detail)

\* the action is invoked with a hash; the try block is entered
Call ==
    /\ pc = "idle"
    /\ UNCHANGED <<providerVars, serverVars>>
    /\ \E h \in Hashes : args' = [args EXCEPT !.safeTxHash = h]
    /\ pc' = "initClient"
    /\ UNCHANGED <<apiKey, safeClient, owners, tx, actionDescription, riskFactors,
                   balance, isContract, explorer, report, result, calls, answers,
                   repeated, previous>>

\* lines 1119-1124: this.safeClient = await initializeClientIfNeeded(...)
InitClient ==
    /\ pc = "initClient"
    /\ UNCHANGED <<providerVars, serverVars>>
    /\ calls' = Append(calls, "Safe.init")
    /\ \/ \E ok \in Ask("Safe.init", {TRUE}) :
            /\ answers' = Tell("Safe.init", Answered(ok))
            /\ safeClient' = args.safeAddress
            /\ pc' = "getOwners"
            /\ UNCHANGED result
       \/ /\ Rejects("Safe.init")
          /\ answers' = Tell("Safe.init", Rejected)
          /\ Throw("Safe.init failed")
          /\ UNCHANGED safeClient
    /\ UNCHANGED <<args, apiKey, owners, tx, actionDescription, riskFactors,
                   balance, isContract, explorer, report, repeated, previous>>

\* line 1127: const owners = await this.safeClient.getOwners()
GetOwners ==
    /\ pc = "getOwners"
    /\ UNCHANGED <<providerVars, serverVars>>
    /\ calls' = Append(calls, "getOwners")
    /\ \/ \E o \in Ask("getOwners", OwnerLists) :
            /\ answers' = Tell("getOwners", Answered(o))
            /\ owners' = o
            /\ pc' = "getPending"
            /\ UNCHANGED result
       \/ /\ Rejects("getOwners")
          /\ answers' = Tell("getOwners", Rejected)
          /\ Throw("getOwners failed")
          /\ UNCHANGED owners
    /\ UNCHANGED <<args, apiKey, safeClient, tx, actionDescription, riskFactors,
                   balance, isContract, explorer, report, repeated, previous>>

\* utils.ts lines 57-62 and, when the hash is not found, the return of line
\* 1131; the service lists the transactions of pending
GetPendingOf(pending) ==
    /\ pc = "getPending"
    /\ UNCHANGED <<providerVars, serverVars>>
    /\ calls' = Append(calls, "getPendingTransactions")
    /\ \/ \E results \in Ask("getPendingTransactions",
                             {<<>>} \cup {<<t>> : t \in pending}) :
            LET found == {i \in 1..Len(results) :
                            results[i].safeTxHash = args.safeTxHash}
            IN  /\ answers' = Tell("getPendingTransactions", Answered(results))
                /\ IF found = {}
                   THEN /\ report' = [kind |-> "notFound",
                                      message |-> NotFoundMessage(args.safeTxHash)]
                        /\ result' = FoundMessage(args.safeTxHash, report'.message)
                        /\ pc' = "done"
                        /\ UNCHANGED tx
                   ELSE /\ tx' = results[CHOOSE i \in found : \A j \in found : i <= j]
                        /\ pc' = "decode"
                        /\ UNCHANGED <<report, result>>
       \/ /\ Rejects("getPendingTransactions")
          /\ answers' = Tell("getPendingTransactions", Rejected)
          /\ Throw("getPendingTransactions failed")
          /\ UNCHANGED <<tx, report>>
    /\ UNCHANGED <<args, apiKey, safeClient, owners, actionDescription, riskFactors,
                   balance, isContract, explorer, repeated, previous>>

GetPending == GetPendingOf(PendingTxs)

\* params?.[i].value (i counted from 0 as in the code): throws a TypeError when
\* the list is defined and has no element i, is undefined when the list is
missingParam(p, i) == p.defined /\ Len(p.list) < i + 1
paramValue(p, i) == IF p.defined THEN p.list[i + 1].value ELSE Undefined

\* lines 104-108 and 110-111: the description of a transaction that is none of
\* the four decoded Safe methods
TransferDescription(t) ==
    [kind |-> "Transfer", eth |-> parseFloat(t.value), to |-> t.to]
CallDescription(t) ==
    [kind |-> "Call", method |-> t.dataDecoded.method, to |-> t.to]
UnknownDescription == [kind |-> "Unknown"]

\* the highest parameter index the description of a decoded method reads
\* (lines 88, 95, 98, 101); none in the default case
lastParamRead(method) ==
    CASE method = addOwnerWithThreshold -> 1
      [] method = removeOwner -> 2
      [] method = changeThreshold -> 0
      [] method = enableModule -> 0
      [] OTHER -> 0 - 1

\* the description with tx.value compared to the number 0, which no string
\* equals: every transaction outside the four Safe methods is a transfer
describe_numericZero(t) ==
    LET d == t.dataDecoded
        p == d.parameters
    IN  IF ~d.present
        THEN TransferDescription(t)
        ELSE CASE d.method = addOwnerWithThreshold ->
                    [kind |-> "AddOwner", owner |-> paramValue(p, 0),
                     threshold |-> paramValue(p, 1)]
               [] d.method = removeOwner ->
                    [kind |-> "RemoveOwner", owner |-> paramValue(p, 1),
                     threshold |-> paramValue(p, 2)]
               [] d.method = changeThreshold ->
                    [kind |-> "ChangeThreshold", threshold |-> paramValue(p, 0)]
               [] d.method = enableModule ->
                    [kind |-> "EnableModule", module |-> paramValue(p, 0)]
               [] OTHER -> TransferDescription(t)

\* lines 75-112 without the reputation lookup: the action description
describe(t) ==
    LET d == t.dataDecoded
        p == d.parameters
    IN  IF ~d.present
        THEN IF t.value # 0 THEN TransferDescription(t) ELSE UnknownDescription
        ELSE CASE d.method = addOwnerWithThreshold ->
                    [kind |-> "AddOwner", owner |-> paramValue(p, 0),
                     threshold |-> paramValue(p, 1)]
               [] d.method = removeOwner ->
                    [kind |-> "RemoveOwner", owner |-> paramValue(p, 1),
                     threshold |-> paramValue(p, 2)]
               [] d.method = changeThreshold ->
                    [kind |-> "ChangeThreshold", threshold |-> paramValue(p, 0)]
               [] d.method = enableModule ->
                    [kind |-> "EnableModule", module |-> paramValue(p, 0)]
               [] OTHER ->
                    IF t.value # 0 THEN TransferDescription(t) ELSE CallDescription(t)

\* the description throws: a decoded Safe method with a parameter list that is
\* defined and shorter than the indices read
describeThrows(t) ==
    /\ t.dataDecoded.present
    /\ lastParamRead(t.dataDecoded.method) >= 0
    /\ missingParam(t.dataDecoded.parameters, lastParamRead(t.dataDecoded.method))

\* the threshold score counted as low
isLowReputation_inclusive(score) == score <= 20

\* line 91: reputation < 20
isLowReputation(score) == score < 20

\* lines 64-112: the description and, for addOwnerWithThreshold, the reputation
\* of the new owner
Decode ==
    /\ pc = "decode"
    /\ UNCHANGED <<providerVars, serverVars>>
    /\ IF describeThrows(tx)
       THEN /\ Throw("TypeError")
            /\ UNCHANGED <<actionDescription, riskFactors, calls, answers>>
       ELSE IF tx.dataDecoded.present /\ tx.dataDecoded.method = addOwnerWithThreshold
       THEN /\ calls' = Append(calls, "reputation(newOwner)")
            /\ \/ \E reputation \in Ask("reputation(newOwner)", Scores) :
                    /\ answers' = Tell("reputation(newOwner)", Answered(reputation))
                    /\ IF isLowReputation(reputation)
                       THEN /\ riskFactors' = Append(riskFactors, LowRepOwner(reputation))
                            /\ actionDescription' = [base |-> describe(tx), notes |-> <<>>]
                       ELSE /\ actionDescription' =
                                  [base |-> describe(tx), notes |-> <<NoteOwnerHighRep>>]
                            /\ UNCHANGED riskFactors
                    /\ pc' = "configCheck"
                    /\ UNCHANGED result
               \/ /\ Rejects("reputation(newOwner)")
                  /\ answers' = Tell("reputation(newOwner)", Rejected)
                  /\ Throw("reputation failed")
                  /\ UNCHANGED <<actionDescription, riskFactors>>
       ELSE /\ actionDescription' = [base |-> describe(tx), notes |-> <<>>]
            /\ pc' = "configCheck"
            /\ UNCHANGED <<riskFactors, result, calls, answers>>
    /\ UNCHANGED <<args, apiKey, safeClient, owners, tx, balance, isContract, explorer,
                   report, repeated, previous>>

\* line 115: the condition of the configuration-change warning
changesConfiguration(t) ==
    /\ t.dataDecoded.present
    /\ \/ includes(t.dataDecoded.method, "Owner")
       \/ t.dataDecoded.method = changeThreshold


\* lines 114-117
ConfigCheck ==
    /\ pc = "configCheck"
    /\ UNCHANGED <<providerVars, serverVars>>
    /\ riskFactors' = IF changesConfiguration(tx)
                      THEN Append(riskFactors, ConfigChange)
                      ELSE riskFactors
    /\ pc' = "valueCheck"
    /\ UNCHANGED <<args, apiKey, safeClient, owners, tx, actionDescription, balance,
                   isContract, explorer, report, result, calls, answers, repeated,
                   previous>>

\* lines 127-129: the findings of the value check once the balance is read
valueFindings(t, b) ==
    LET ethValue == parseFloat(t.value)
        safeBalance == safeBalanceOf(b)
    IN  IF IsHighValue(ethValue, safeBalance)
        THEN <<HighValue(ethValue, Percent(ethValue, safeBalance))>>
        ELSE <<>>


\* lines 119-130
ValueCheck ==
    /\ pc = "valueCheck"
    /\ UNCHANGED <<providerVars, serverVars>>
    /\ IF tx.value # 0
       THEN /\ calls' = Append(calls, "getBalance")
            /\ \/ \E b \in Ask("getBalance", 0..MaxBalance) :
                    /\ answers' = Tell("getBalance", Answered(b))
                    /\ balance' = b
                    /\ riskFactors' = riskFactors \o valueFindings(tx, b)
                    /\ pc' = "destCheck"
                    /\ UNCHANGED result
               \/ /\ Rejects("getBalance")
                  /\ answers' = Tell("getBalance", Rejected)
                  /\ Throw("getBalance failed")
                  /\ UNCHANGED <<balance, riskFactors>>
       ELSE /\ pc' = "destCheck"
            /\ UNCHANGED <<balance, riskFactors, result, calls, answers>>
    /\ UNCHANGED <<args, apiKey, safeClient, owners, tx, actionDescription,
                   isContract, explorer, report, repeated, previous>>

\* answers of provider.getCode: no code (undefined or "0x") or deployed bytecode
CodeAnswers == {Undefined, "0x", "0x6080"}

\* line 139: Boolean(code && code !== "0x")
isContractCode(c) == c # Undefined /\ c # "0x"

\* line 144: params?.find(p => p.name === "dst" || p.name === "to"), as the
\* list of matching parameters in order (find returns the first, if any)
destinationParams(p) ==
    IF p.defined
    THEN SelectSeq(p.list, LAMBDA q : q.name = "dst" \/ q.name = "to")
    ELSE <<>>

\* lines 142-145: an ERC20 transfer whose destination is the token contract
isSelfTransfer(t, contract) ==
    /\ contract
    /\ t.dataDecoded.present
    /\ t.dataDecoded.method = transfer
    /\ LET found == destinationParams(t.dataDecoded.parameters)
       IN  /\ found # <<>>
           /\ toLowerCase(found[1].value) = toLowerCase(t.to)

\* the check without its test for a decoded call
isDirectEth_anyPayload(t, contract) == contract /\ t.value # 0

\* line 151: ETH sent to a contract without a function call
isDirectEth(t, contract) == contract /\ t.value # 0 /\ ~t.dataDecoded.present

\* the membership test made on the lower-cased destination
isSafeOwner_lowerCased(os, a) == \E i \in 1..Len(os) : os[i] = toLowerCase(a)

\* line 157: owners.includes(tx.to)
isSafeOwner(os, a) == \E i \in 1..Len(os) : os[i] = a

\* the destination check without the warning for a destination that is not an
\* owner
destinationFindings_noOwnerWarning(t, contract, os) ==
    (IF isSelfTransfer(t, contract) THEN <<SelfTransfer>> ELSE <<>>)
    \o (IF isDirectEth(t, contract) THEN <<DirectEth>> ELSE <<>>)

\* lines 142-164: the findings of the destination check once the code is read
destinationFindings(t, contract, os) ==
    (IF isSelfTransfer(t, contract) THEN <<SelfTransfer>> ELSE <<>>)
    \o (IF isDirectEth(t, contract) THEN <<DirectEth>> ELSE <<>>)
    \o (IF ~contract /\ ~isSafeOwner(os, t.to) THEN <<NotOwner>> ELSE <<>>)

\* lines 158-160: the note of the destination check
destinationNotes(t, contract, os) ==
    IF ~contract /\ isSafeOwner(os, t.to) THEN <<NoteIsOwner>> ELSE <<>>


\* lines 132-164; of the answer of getCode only what line 139 makes of it is
\* remembered
DestCheck ==
    /\ pc = "destCheck"
    /\ UNCHANGED <<providerVars, serverVars>>
    /\ IF tx.to # NoAddress
       THEN /\ calls' = Append(calls, "getCode")
            /\ \/ \E c \in CodeAnswers :
                    /\ isContractCode(c) \in Ask("getCode", BOOLEAN)
                    /\ answers' = Tell("getCode", Answered(isContractCode(c)))
                    /\ isContract' = isContractCode(c)
                    /\ riskFactors' =
                         riskFactors \o destinationFindings(tx, isContract', owners)
                    /\ actionDescription' =
                         [actionDescription EXCEPT
                            !.notes = @ \o destinationNotes(tx, isContract', owners)]
                    /\ pc' = IF isContract' THEN "verification" ELSE "destReputation"
                    /\ UNCHANGED result
               \/ /\ Rejects("getCode")
                  /\ answers' = Tell("getCode", Rejected)
                  /\ Throw("getCode failed")
                  /\ UNCHANGED <<isContract, riskFactors, actionDescription>>
       ELSE /\ pc' = "verification"
            /\ UNCHANGED <<isContract, riskFactors, actionDescription, result, calls,
                           answers>>
    /\ UNCHANGED <<args, apiKey, safeClient, owners, tx, balance, explorer, report,
                   repeated, previous>>

\* lines 166-176: the reputation of a destination that is not a contract
DestReputation ==
    /\ pc = "destReputation"
    /\ UNCHANGED <<providerVars, serverVars>>
    /\ calls' = Append(calls, "reputation(to)")
    /\ \/ \E reputation \in Ask("reputation(to)", Scores) :
            /\ answers' = Tell("reputation(to)", Answered(reputation))
            /\ IF isLowReputation(reputation)
               THEN /\ riskFactors' = Append(riskFactors, LowRepDest(reputation))
                    /\ UNCHANGED actionDescription
               ELSE /\ actionDescription' =
                          [actionDescription EXCEPT !.notes = Append(@, NoteDestHighRep)]
                    /\ UNCHANGED riskFactors
            /\ pc' = "verification"
            /\ UNCHANGED result
       \/ /\ Rejects("reputation(to)")
          /\ answers' = Tell("reputation(to)", Rejected)
          /\ Throw("reputation failed")
          /\ UNCHANGED <<actionDescription, riskFactors>>
    /\ UNCHANGED <<args, apiKey, safeClient, owners, tx, balance, isContract, explorer,
                   report, repeated, previous>>

\* answers of the explorer: the request fails (network error, unreadable body),
\* a non-success status (quota, error answer), or a success naming the contract
\* (verified) or not (unverified)
ExplorerAnswers == {Failure, "status 0", "unverified", "verified"}

\* a lookup that flags whatever is not answered "verified"
verificationFindings_flagUnknown(t, answer) ==
    IF answer # "verified" THEN <<Unverified(t.to)>> ELSE <<>>

\* lines 195-209 inside the try: the finding and the note of an answer
verificationFindings(t, answer) ==
    IF answer = "unverified" THEN <<Unverified(t.to)>> ELSE <<>>
verificationNotes(t, answer) ==
    IF answer = "verified" THEN <<NoteVerified("ContractName", t.to)>> ELSE <<>>


\* the lookup made for every destination once a key is configured
verificationLookupIssued_keyOnly(key, contract) == key

\* lines 191 and 195: the lookup is made
verificationLookupIssued(key, contract) == key /\ contract

\* a destination that was not looked up is reported as unverified
skippedFindings_flagContract(t, contract) ==
    IF contract THEN <<Unverified(t.to)>> ELSE <<>>

\* lines 191-214: no finding is made when the lookup is not made
skippedFindings(t, contract) == <<>>

\* lines 188-214
Verification ==
    /\ pc = "verification"
    /\ UNCHANGED <<providerVars, serverVars>>
    /\ \/ /\ \E id \in Ask("getChainId", {"8453"}) :
               IF verificationLookupIssued(apiKey, isContract)
               THEN /\ calls' = calls \o <<"getChainId", "fetch">>
                    /\ \E answer \in Ask("fetch", ExplorerAnswers) :
                         /\ answers' = [answers EXCEPT
                                          !["getChainId"] = Answered(id),
                                          !["fetch"] = Answered(answer)]
                         /\ explorer' = answer
                         /\ riskFactors' = riskFactors \o verificationFindings(tx, answer)
                         /\ actionDescription' =
                              [actionDescription EXCEPT
                                 !.notes = @ \o verificationNotes(tx, answer)]
               ELSE /\ calls' = Append(calls, "getChainId")
                    /\ answers' = Tell("getChainId", Answered(id))
                    /\ riskFactors' = riskFactors \o skippedFindings(tx, isContract)
                    /\ UNCHANGED <<actionDescription, explorer>>
          /\ pc' = "format"
          /\ UNCHANGED result
       \/ /\ Rejects("getChainId")
          /\ calls' = Append(calls, "getChainId")
          /\ answers' = Tell("getChainId", Rejected)
          /\ Throw("getChainId failed")
          /\ UNCHANGED <<riskFactors, actionDescription, explorer>>
    /\ UNCHANGED <<args, apiKey, safeClient, owners, tx, balance, isContract,
                   report, repeated, previous>>

\* line 65: new Date(tx.submissionDate).toLocaleString(), the date rendered in
\* the locale and time zone of the process
toLocaleString(date) == [date |-> date, rendered |-> "locale"]

\* the analysis that prints an empty finding list as it is
format_emptyRisk(t, description, findings) ==
    [kind |-> "analysis",
     sections |-> <<"Proposed by", "Proposed at", "Status", "Confirmed by", "Action",
                    "Risk Assessment">>,
     proposer |-> t.proposer,
     proposedAt |-> toLocaleString(t.submissionDate),
     status |-> [confirmations |-> Len(t.confirmations),
                 required |-> t.confirmationsRequired],
     confirmedBy |-> IF t.confirmations # <<>> THEN t.confirmations ELSE <<"none">>,
     action |-> description,
     risk |-> findings]

\* lines 64-68 and 216-226: the formatted analysis, section by section
format(t, description, findings) ==
    [kind |-> "analysis",
     sections |-> <<"Proposed by", "Proposed at", "Status", "Confirmed by", "Action",
                    "Risk Assessment">>,
     proposer |-> t.proposer,
     proposedAt |-> toLocaleString(t.submissionDate),
     status |-> [confirmations |-> Len(t.confirmations),
                 required |-> t.confirmationsRequired],
     confirmedBy |-> IF t.confirmations # <<>> THEN t.confirmations ELSE <<"none">>,
     action |-> description,
     risk |-> IF Len(findings) > 0 THEN findings ELSE <<NoRisk>>]


\* lines 216-228 and the return of line 1131
Format ==
    /\ pc = "format"
    /\ UNCHANGED <<providerVars, serverVars>>
    /\ report' = format(tx, actionDescription, riskFactors)
    /\ result' = FoundMessage(args.safeTxHash, report')
    /\ pc' = "done"
    /\ UNCHANGED <<args, apiKey, safeClient, owners, tx, actionDescription, riskFactors,
                   balance, isContract, explorer, calls, answers, repeated, previous>>

Next ==
    \/ Call
    \/ InitClient
    \/ GetOwners
    \/ GetPending
    \/ Decode
    \/ ConfigCheck
    \/ ValueCheck
    \/ DestCheck
    \/ DestReputation
    \/ Verification
    \/ Format

Spec == Init /\ [][Next]_vars

-----------------------------------------------------------------------------
(* The action called a second time *)

\* a list of findings that outlives the call that filled it
newRiskFactors_shared(old) == old

\* utils.ts line 71: const riskFactors: string[] = [] is a new list in every
\* call, whatever an earlier call (old) collected
newRiskFactors(old) == <<>>

\* The action is invoked again on the same provider object, with the same
\* arguments, after the first call returned.  Every local of analyzeTransaction
\* and riskAnalysis is new; the field safeClient keeps its value; the
\* environment variable may have been set in between.
Recall ==
    /\ pc = "done"
    /\ UNCHANGED <<providerVars, serverVars>>
    /\ ~repeated
    /\ repeated' = TRUE
    /\ previous' = [made |-> TRUE, apiKey |-> apiKey, report |-> report,
                    result |-> result]
    /\ apiKey' \in {apiKey, TRUE}
    /\ pc' = "initClient"
    /\ owners' = <<>>
    /\ tx' = NoTx
    /\ actionDescription' = NoDescription
    /\ riskFactors' = newRiskFactors(riskFactors)
    /\ balance' = NoBalance
    /\ isContract' = FALSE
    /\ explorer' = None
    /\ report' = NoReport
    /\ result' = NoResult
    /\ calls' = <<>>
    /\ UNCHANGED <<args, safeClient, answers>>

\* the pending transactions of the runs with a second call: decoded parameter
\* lists of every length up to MaxParams, one list of each length
RepeatedParams == <<Param("dst", "0xaa"), Param("_threshold", "2"), Param("to", "0xbb")>>
RepeatedTxs ==
    {t \in PendingTxs :
        t.dataDecoded.present /\ t.dataDecoded.parameters.defined =>
            \A i \in 1..Len(t.dataDecoded.parameters.list) :
                t.dataDecoded.parameters.list[i] =
                    RepeatedParams[((i - 1) % Len(RepeatedParams)) + 1]}

NextRepeated ==
    \/ Call
    \/ InitClient
    \/ GetOwners
    \/ GetPendingOf(RepeatedTxs)
    \/ Decode
    \/ ConfigCheck
    \/ ValueCheck
    \/ DestCheck
    \/ DestReputation
    \/ Verification
    \/ Format
    \/ Recall

SpecRepeated == Init /\ [][NextRepeated]_vars

-----------------------------------------------------------------------------
(* Notions the properties are stated in *)

Finished == pc = "done"
TxFound == tx.safeTxHash # None
\* the call returned an analysis report
Reported == Finished /\ report.kind = "analysis"
\* the call returned the error message of the catch
IsError(r) == "error" \in DOMAIN r
Issued(c) == \E i \in 1..Len(calls) : calls[i] = c
LastCall == IF calls = <<>> THEN None ELSE calls[Len(calls)]

\* an external call was rejected.  Every call that answers is followed by at
\* least one more call (getChainId) before the action returns.
BalanceReadFailed == Finished /\ Issued("getBalance") /\ balance = NoBalance
ReputationFailed == Finished /\ LastCall \in {"reputation(newOwner)", "reputation(to)"}
CodeReadFailed == Finished /\ LastCall = "getCode"
LookupFailed == Finished /\ IsError(result) /\ result.error # "TypeError"

\* findings by the check that made them
HasTag(findings, t) == \E i \in 1..Len(findings) : findings[i].tag = t
Count(findings, t) == Len(SelectSeq(findings, LAMBDA f : f.tag = t))
Criticals(findings) == {i \in 1..Len(findings) : findings[i].severity = "critical"}

\* two spellings of one address
SameAddress(a, b) ==
    LET canonical(x) == IF x \in {"0xaa", "0xAA"} THEN "0xaa" ELSE x
    IN  canonical(a) = canonical(b)

\* the decoded destination parameter (the first one named dst or to) is the
\* address the transaction is sent to
DestinationIsTo(t) ==
    /\ t.dataDecoded.present
    /\ t.dataDecoded.parameters.defined
    /\ LET l == t.dataDecoded.parameters.list
           named(i) == l[i].name \in {"dst", "to"}
       IN  \E i \in 1..Len(l) :
              /\ named(i)
              /\ \A j \in 1..(i - 1) : ~named(j)
              /\ SameAddress(l[i].value, t.to)

\* lookup k was answered, and what it answered
Got(k) == IF answers[k].known THEN answers[k].ok ELSE FALSE
AnswerOf(k) == answers[k].v
\* getCode answered that the destination holds no code
ToIsEOA == TxFound /\ (IF Got("getCode") THEN ~AnswerOf("getCode") ELSE FALSE)
\* the destination is one of the owners getOwners returned
ToIsOwner == \E i \in 1..Len(owners) : SameAddress(owners[i], tx.to)
notes == actionDescription.notes

-----------------------------------------------------------------------------
(* The actions of SafeActionProvider, called by the agents of the sessions *)

\* A call of an action is modelled from await to await: a step settles the
\* awaited request and runs the code up to the next await, where the call
\* reads the field safeClient of its provider again.  Two handlers of one
\* session call actions of the same provider; handlers of different sessions
\* call actions of different providers.

\* all sessions using one provider object
providerOf_shared(session) == "s1"

\* agent.ts lines 88-115 and safeActionProvider.ts line 1145: initializeAgent
\* builds a new SafeActionProvider for the agent of each socket
providerOf(session) == session

ActionNames ==
    {"initializeSafe", "safeInfo", "addSigner", "removeSigner", "changeThreshold",
     "executePending", "withdrawEth", "enableAllowanceModule", "setAllowance",
     "getAllowanceInfo", "withdrawAllowance", "analyzeTransaction"}

\* the operation name an action puts in front of its messages
Prefix(name) ==
    CASE name = "initializeSafe" -> "Create safe"
      [] name = "safeInfo" -> "Safe info"
      [] name = "addSigner" -> "Add signer"
      [] name = "removeSigner" -> "Remove signer"
      [] name = "changeThreshold" -> "Change threshold"
      [] name = "executePending" -> "Execute pending"
      [] name = "withdrawEth" -> "Withdraw ETH"
      [] name = "enableAllowanceModule" -> "Enable allowance module"
      [] name = "setAllowance" -> "Set allowance"
      [] name = "getAllowanceInfo" -> "Get allowance"
      [] name = "withdrawAllowance" -> "Withdraw allowance"
      [] name = "analyzeTransaction" -> "Analyze transaction"

\* the actions that build a Safe transaction and then test the threshold
Gated ==
    {"addSigner", "removeSigner", "changeThreshold", "withdrawEth",
     "enableAllowanceModule", "setAllowance"}

\* the methods the actions call on this.safeClient
ClientOps ==
    {"getOwners", "getThreshold", "isSafeDeployed", "isModuleEnabled",
     "createAddOwnerTx", "createRemoveOwnerTx", "createChangeThresholdTx",
     "createTransaction", "createEnableModuleTx", "getTransactionHash", "signHash",
     "executeTransaction"}
CreateOps ==
    {"createAddOwnerTx", "createRemoveOwnerTx", "createChangeThresholdTx",
     "createTransaction", "createEnableModuleTx"}

\* the awaits of each action in order, up to the test of the threshold (of
\* isSafeDeployed in initializeSafe, of the pending list in executePending)
Script(name) ==
    CASE name = "initializeSafe" ->
            <<"Safe.init(predictedSafe)", "getAddress", "createSafeDeploymentTransaction",
              "getExternalSigner", "sendTransaction", "waitForTransactionReceipt",
              "connect", "isSafeDeployed">>
      [] name = "safeInfo" ->
            <<"Safe.init", "getOwners", "getThreshold", "getPendingTransactions",
              "getBalance", "readContract(balanceOf)", "isModuleEnabled">>
      [] name = "addSigner" -> <<"Safe.init", "getThreshold", "createAddOwnerTx">>
      [] name = "removeSigner" ->
            <<"Safe.init", "getOwners", "getThreshold", "createRemoveOwnerTx">>
      [] name = "changeThreshold" ->
            <<"Safe.init", "getOwners", "getThreshold", "createChangeThresholdTx">>
      [] name = "executePending" -> <<"Safe.init", "getPendingTransactions">>
      [] name = "withdrawEth" ->
            <<"Safe.init", "getThreshold", "getBalance", "createTransaction">>
      [] name = "enableAllowanceModule" ->
            <<"Safe.init", "isSafeDeployed", "isModuleEnabled", "createEnableModuleTx",
              "getThreshold">>
      [] name = "setAllowance" ->
            <<"Safe.init", "isModuleEnabled", "readContract(symbol)",
              "readContract(decimals)", "createTransaction", "getThreshold">>
      [] name = "getAllowanceInfo" ->
            <<"readContract(getTokenAllowance)", "readContract(symbol)",
              "readContract(decimals)">>
      [] name = "withdrawAllowance" ->
            <<"readContract(getTokenAllowance)", "readContract(decimals)",
              "readContract(generateTransferHash)", "sign", "sendTransaction",
              "waitForTransactionReceipt", "readContract(symbol)">>
      [] name = "analyzeTransaction" -> <<"Safe.init", "getOwners", "riskAnalysis">>

\* the awaits of the two branches of if (currentThreshold > 1)
Propose == <<"getTransactionHash", "signHash", "proposeTransaction">>
Execute == <<"executeTransaction">>
\* initializeSafe lines 149-151, once the Safe is deployed
Deployed == <<"getAddress", "getOwners", "getThreshold">>

\* both branches executing
Branch_alwaysExecute(threshold) == Execute

\* lines 291, 368, 436, 610, 692, 844: if (currentThreshold > 1)
Branch(threshold) == IF threshold > 1 THEN Propose ELSE Execute

\* every await of call k, those after the test included once it can be made
Plan(k) ==
    Script(k.name) \o
        (IF k.step < Len(Script(k.name)) THEN <<>>
         ELSE IF k.name \in Gated THEN Branch(k.threshold)
         ELSE IF k.name = "initializeSafe" THEN Deployed
         ELSE <<>>)

\* a || b on an optional number: undefined and 0 give b
orElse(opt, b) == IF opt.present /\ opt.value # 0 THEN opt.value ELSE b

\* keeping the current threshold whatever the number of signers left
removeThreshold_keepCurrent(k) == orElse(k.newThreshold, k.threshold)

\* removeSigner lines 361-365: the threshold of the removal transaction
removeThreshold(k) ==
    orElse(k.newThreshold,
           IF k.threshold > Len(k.owners) - 1 THEN Len(k.owners) - 1 ELSE k.threshold)

\* lines 304, 308, 381, 385: the threshold the messages of addSigner and
\* removeSigner state, args.newThreshold || currentThreshold
statedThreshold(k) == orElse(k.newThreshold, k.threshold)

\* the Safe transaction the create method named op is asked for
Transaction(k, op) ==
    CASE op = "createAddOwnerTx" ->
            [made |-> TRUE, kind |-> "addOwner",
             threshold |-> orElse(k.newThreshold, k.threshold)]
      [] op = "createRemoveOwnerTx" ->
            [made |-> TRUE, kind |-> "removeOwner", threshold |-> removeThreshold(k)]
      [] op = "createChangeThresholdTx" ->
            [made |-> TRUE, kind |-> "changeThreshold", threshold |-> k.newThreshold.value]
      [] op = "createEnableModuleTx" -> [made |-> TRUE, kind |-> "enableModule"]
      [] op = "createTransaction" ->
            [made |-> TRUE,
             kind |-> IF k.name = "withdrawEth" THEN "transfer" ELSE "setAllowance"]

\* the argument of the request op of call k
With(k, op) ==
    IF op \in CreateOps THEN Transaction(k, op)
    ELSE IF op \in {"getTransactionHash", "executeTransaction"} THEN k.safeTransaction
    ELSE NoSafeTransaction

\* call k issues the request op and awaits it; a method of the Safe client
\* is called on the client the field of the provider holds at this moment
\* (initializeSafe uses a client of its own, line 123)
Await(k, op, arg, field) ==
    [k EXCEPT !.awaiting = op,
              !.ops = Append(@, [op |-> op,
                                 on |-> IF op \in ClientOps /\ k.name # "initializeSafe"
                                        THEN field ELSE None,
                                 with |-> arg])]

Message(name, kind, detail) == [prefix |-> Prefix(name), kind |-> kind, detail |-> detail]
\* line 685
AlreadyEnabled ==
    [prefix |-> None, kind |-> "already enabled",
     detail |-> [message |-> "Allowance module is already enabled for this Safe"]]

Return(k, message) == [k EXCEPT !.state = "returned", !.awaiting = None, !.result = message]

\* a catch that throws the error on
Caught_rethrown(k, detail) ==
    [k EXCEPT !.state = "thrown", !.awaiting = None, !.result = [thrown |-> detail]]

\* the catch that closes the try of every action (lines 157, 240, 310, 387,
\* 455, 541, 629, 711, 863, 950, 1087, 1132)
Caught(k, detail) == Return(k, Message(k.name, "error", [message |-> detail]))

\* the Safe initializeSafe deploys: of the agent alone (signers and threshold
\* of InitializeSafeSchema at their defaults)
NewSafe == SafeState(<<AgentAddress>>, 1)

\* the Safe the request awaited by k was made on
onSafe(k) ==
    LET a == k.ops[Len(k.ops)].on
    IN  IF a = None THEN NewSafe ELSE safes[a]

\* executePending: the pending transactions the service may list
ConfirmationLists == {<<>>, <<"0xcc">>, <<AgentAddress>>, <<AgentAddress, "0xcc">>}
PendingOf(h) ==
    {[safeTxHash |-> h, confirmations |-> c, confirmationsRequired |-> r,
      isExecuted |-> FALSE] :
        c \in ConfirmationLists, r \in 1..2}
    \cup {[safeTxHash |-> h, confirmations |-> <<AgentAddress>>,
           confirmationsRequired |-> 1, isExecuted |-> TRUE]}
PendingLists ==
    {<<>>} \cup {<<t>> : t \in PendingOf("h1")}
           \cup {<<t, u>> : t \in PendingOf("h1"), u \in PendingOf("h2")}

\* what the request awaited by k can be answered
Values(k) ==
    CASE k.awaiting = "getOwners" -> {onSafe(k).owners}
      [] k.awaiting = "getThreshold" -> {onSafe(k).threshold}
      [] k.awaiting \in {"isSafeDeployed", "isModuleEnabled"} -> BOOLEAN
      [] k.awaiting = "getBalance" -> {1}
      [] k.awaiting = "getPendingTransactions" ->
            IF k.name = "executePending" THEN PendingLists ELSE {<<>>}
      [] OTHER -> {TRUE}

\* the assignment of the value v the awaited request answered
settled(k, v) ==
    LET s == [k EXCEPT !.step = @ + 1]
    IN  CASE k.awaiting = "getOwners" -> [s EXCEPT !.owners = v]
          [] k.awaiting = "getThreshold" -> [s EXCEPT !.threshold = v]
          [] k.awaiting \in {"isSafeDeployed", "isModuleEnabled"} -> [s EXCEPT !.answer = v]
          [] k.awaiting = "getBalance" -> [s EXCEPT !.balance = v]
          [] k.awaiting \in CreateOps ->
                [s EXCEPT !.safeTransaction = k.ops[Len(k.ops)].with]
          [] k.awaiting = "getPendingTransactions" ->
                [s EXCEPT !.pendingTxs = v, !.next = 1]
          [] k.awaiting = "executeTransaction" /\ k.name = "executePending" ->
                [s EXCEPT !.executedTxs = Append(@, k.ops[Len(k.ops)].with.safeTxHash),
                          !.next = @ + 1]
          [] OTHER -> s

\* the throw statements between the awaits (lines 356, 431, 592, 671, 770):
\* the message thrown once the awaited request of k is settled, None if none
thrown(k) ==
    CASE k.name = "removeSigner" /\ k.awaiting = "getThreshold" /\ Len(k.owners) <= 1 ->
            "Cannot remove the last signer"
      [] k.name = "changeThreshold" /\ k.awaiting = "getThreshold"
            /\ k.newThreshold.value > Len(k.owners) ->
            "New threshold cannot exceed number of signers"
      [] k.name = "withdrawEth" /\ k.awaiting = "getBalance"
            /\ k.amount.present /\ k.amount.value > k.balance ->
            "Insufficient balance"
      [] k.name = "enableAllowanceModule" /\ k.awaiting = "isSafeDeployed" /\ ~k.answer ->
            "Safe not deployed"
      [] k.name = "setAllowance" /\ k.awaiting = "isModuleEnabled" /\ ~k.answer ->
            "Allowance module is not enabled for this Safe. Enable it first."
      [] OTHER -> None

\* executePending line 514
hasAgentSigned(t) ==
    \E i \in 1..Len(t.confirmations) :
        toLowerCase(t.confirmations[i]) = toLowerCase(AgentAddress)
\* lines 505-509
txsToProcess(k) ==
    SelectSeq(k.pendingTxs,
              LAMBDA t : (k.safeTxHash # None => t.safeTxHash = k.safeTxHash)
                         /\ ~t.isExecuted)

\* lines 534-540
ExecutePendingMessage(k) ==
    IF k.executedTxs = <<>> /\ k.skippedTxs > 0
    THEN Message(k.name, "none executed", [skipped |-> k.skippedTxs])
    ELSE Message(k.name, "complete", [executed |-> k.executedTxs])

\* lines 511-532: the loop from transaction k.next on, up to its next await
RECURSIVE executeLoop(_, _)
executeLoop(k, field) ==
    IF k.next > Len(txsToProcess(k)) THEN Return(k, ExecutePendingMessage(k))
    ELSE LET t == txsToProcess(k)[k.next]
             confirmations == Len(t.confirmations)
         IN  IF confirmations = t.confirmationsRequired - 1 /\ ~hasAgentSigned(t)
             THEN Await(k, "executeTransaction", t, field)
             ELSE IF confirmations < t.confirmationsRequired
             THEN executeLoop([k EXCEPT !.skippedTxs = @ + 1, !.next = @ + 1], field)
             ELSE Await(k, "executeTransaction", t, field)

\* line 1129: the arguments riskAnalysis is called with decide its report
riskAnalysisOf(k) ==
    [safeAddress |-> k.safeAddress, safeTxHash |-> k.safeTxHash, owners |-> k.owners]

\* the message of the return statement the call reaches after its last await
Success(k) ==
    CASE k.name \in {"addSigner", "removeSigner"} ->
            Message(k.name,
                    IF k.awaiting = "proposeTransaction" THEN "proposed" ELSE "executed",
                    [threshold |-> statedThreshold(k)])
      [] k.name = "changeThreshold" ->
            Message(k.name,
                    IF k.awaiting = "proposeTransaction" THEN "proposed" ELSE "executed",
                    [threshold |-> k.newThreshold.value])
      [] k.name \in {"withdrawEth", "enableAllowanceModule", "setAllowance"} ->
            Message(k.name,
                    IF k.awaiting = "proposeTransaction" THEN "proposed" ELSE "executed",
                    [transaction |-> k.safeTransaction.kind])
      [] k.name = "analyzeTransaction" -> Message(k.name, "found", riskAnalysisOf(k))
      [] k.name = "initializeSafe" ->
            Message(k.name, "created", [owners |-> k.owners, threshold |-> k.threshold])
      [] OTHER -> Message(k.name, "info", [owners |-> k.owners, threshold |-> k.threshold])

\* the code of call k from the settled await to the next one or to a return
proceed(k, field) ==
    IF thrown(k) # None THEN Caught(k, thrown(k))
    ELSE IF k.name = "enableAllowanceModule" /\ k.awaiting = "isModuleEnabled" /\ k.answer
    THEN Return(k, AlreadyEnabled)
    ELSE IF k.name = "initializeSafe" /\ k.awaiting = "isSafeDeployed" /\ ~k.answer
    THEN Return(k, Message(k.name, "error", [message |-> "Error creating Safe"]))
    ELSE IF k.name = "executePending" /\ k.awaiting = "getPendingTransactions"
            /\ k.pendingTxs = <<>>
    THEN Return(k, Message(k.name, "no pending",
                      [message |-> "No pending transactions found."]))
    ELSE IF k.name = "executePending" /\ k.step >= Len(Script(k.name))
    THEN executeLoop(k, field)
    ELSE IF k.step = Len(Plan(k)) THEN Return(k, Success(k))
    ELSE Await(k, Plan(k)[k.step + 1], With(k, Plan(k)[k.step + 1]), field)

\* the arguments the actions are called with
NoArguments ==
    [safeAddress |-> None, safeTxHash |-> None, newThreshold |-> Absent, amount |-> Absent]
Arguments(name) ==
    CASE name = "initializeSafe" -> {NoArguments}
      [] name \in {"addSigner", "removeSigner"} ->
            {[NoArguments EXCEPT !.safeAddress = a, !.newThreshold = n] :
                a \in SafeAddresses, n \in {Absent, Given(0), Given(1), Given(2)}}
      [] name = "changeThreshold" ->
            {[NoArguments EXCEPT !.safeAddress = a, !.newThreshold = n] :
                a \in SafeAddresses, n \in {Given(1), Given(2), Given(3)}}
      [] name = "withdrawEth" ->
            {[NoArguments EXCEPT !.safeAddress = a, !.amount = n] :
                a \in SafeAddresses, n \in {Absent, Given(1), Given(2)}}
      [] name = "executePending" ->
            {[NoArguments EXCEPT !.safeAddress = a, !.safeTxHash = h] :
                a \in SafeAddresses, h \in {None, "h1"}}
      [] name = "analyzeTransaction" ->
            {[NoArguments EXCEPT !.safeAddress = a, !.safeTxHash = "h1"] :
                a \in SafeAddresses}
      [] OTHER -> {[NoArguments EXCEPT !.safeAddress = a] : a \in SafeAddresses}

\* the locals of a call that has just entered its action
NewCall(name, session, a, overlaps) ==
    [state |-> "awaiting", name |-> name, session |-> session,
     safeAddress |-> a.safeAddress, safeTxHash |-> a.safeTxHash,
     newThreshold |-> a.newThreshold, amount |-> a.amount, overlaps |-> overlaps,
     awaiting |-> None, step |-> 0, ops |-> <<>>, owners |-> <<>>, threshold |-> 0,
     answer |-> FALSE, balance |-> 0, safeTransaction |-> NoSafeTransaction,
     pendingTxs |-> <<>>, next |-> 0, executedTxs |-> <<>>, skippedTxs |-> 0,
     rejected |-> None, result |-> NoResult]

Awaiting(h) == h \in DOMAIN inflight /\ inflight[h].state = "awaiting"
\* the field safeClient of the provider of session s, None while null
fieldOf(s) ==
    IF providerOf(s) \in DOMAIN clients THEN clients[providerOf(s)] ELSE None

\* handler h of a session of sessions has its agent call an action of names:
\* the action runs to its first await
Invoke(h, sessions, names) ==
    /\ h \notin DOMAIN inflight
    /\ \E name \in names, s \in sessions :
        \E a \in Arguments(name) :
            LET k == NewCall(name, s, a, \E g \in Handlers : Awaiting(g))
            IN  inflight' = inflight @@
                    (h :> Await(k, Script(name)[1], NoSafeTransaction, fieldOf(s)))
    /\ UNCHANGED <<safes, clients>>
    /\ UNCHANGED <<analysisVars, serverVars>>

\* this.safeClient = await initializeClientIfNeeded(...) of the call of h:
\* utils.ts lines 15-29 make a client for args.safeAddress, which is stored in
\* the field of the provider; the call goes on to its next await
Connect(h) ==
    /\ Awaiting(h)
    /\ inflight[h].awaiting = "Safe.init"
    /\ LET k == inflight[h]
           p == providerOf(k.session)
       IN  /\ clients' = [q \in DOMAIN clients \cup {p} |->
                             IF q = p THEN k.safeAddress ELSE clients[q]]
           /\ inflight' = [inflight EXCEPT ![h] = proceed(settled(k, TRUE), k.safeAddress)]
    /\ UNCHANGED safes
    /\ UNCHANGED <<analysisVars, serverVars>>

\* any other awaited request of the call of h is fulfilled
Settle(h) ==
    /\ Awaiting(h)
    /\ inflight[h].awaiting # "Safe.init"
    /\ LET k == inflight[h]
       IN  \E v \in Values(k) :
              inflight' = [inflight EXCEPT ![h] = proceed(settled(k, v), fieldOf(k.session))]
    /\ UNCHANGED <<safes, clients>>
    /\ UNCHANGED <<analysisVars, serverVars>>

\* the awaited request of the call of h is rejected: the catch of the action
Reject(h) ==
    /\ Awaiting(h)
    /\ LET k == inflight[h]
       IN  inflight' = [inflight EXCEPT
                           ![h] = Caught([k EXCEPT !.rejected = k.awaiting], k.awaiting)]
    /\ UNCHANGED <<safes, clients>>
    /\ UNCHANGED <<analysisVars, serverVars>>

\* the Safes exist; no action has been called
InitProvider ==
    /\ InitAnalysis /\ ~apiKey
    /\ safes \in Worlds
    /\ clients = Nothing
    /\ inflight = Nothing
    /\ ServerIdle

\* one call of an action
NextProvider ==
    \/ Invoke("chat-message", {"s1"}, ActionNames)
    \/ Connect("chat-message")
    \/ Settle("chat-message")
    \/ Reject("chat-message")

SpecProvider == InitProvider /\ [][NextProvider]_vars

\* the actions called in the runs with two calls
SessionActions == {"analyzeTransaction", "addSigner", "removeSigner"}

\* two calls interleaved at their awaits: one by the chat-message handler of
\* a socket, one by the silent-request handler of the same socket or by a
\* handler of another socket
NextSessions ==
    \/ Invoke("chat-message", {"s1"}, SessionActions)
    \/ Invoke("silent-request", Sessions, SessionActions)
    \/ \E h \in Handlers : Connect(h)
    \/ \E h \in Handlers : Settle(h)
    \/ \E h \in Handlers : Reject(h)

\* the Safes of the runs with two calls: the first one has two signers
InitSessions ==
    /\ InitProvider
    /\ safes[SafeAddress].owners = <<AgentAddress, "0xcc">>

SpecSessions == InitSessions /\ [][NextSessions]_vars



-----------------------------------------------------------------------------
(* Notions the properties of the other actions are stated in *)

\* the calls of actions made so far
Made == {inflight[h] : h \in DOMAIN inflight}
HasReturned(k) == k.state = "returned"
\* the requests call k made by the method op
Requests(k, op) == {i \in 1..Len(k.ops) : k.ops[i].op = op}
\* the Safe call k is about, as it is on chain
SafeOf(k) == safes[k.safeAddress]
\* the call returned one of the messages that start with "Successfully"
\* proposed or with "Successfully" followed by what was done
BySuccessMessage(k) == HasReturned(k) /\ k.result.kind \in {"proposed", "executed"}

-----------------------------------------------------------------------------
(* The websocket server: sockets and the agents map *)

\* the ids of the sockets that connect
SocketIds == Sessions \cup {"s3"}

\* websocket/index.ts lines 12-17: the connection handler of a new socket
\* starts with await initializeAgent(socket.id); the listeners of lines 23-90
\* are registered only after it
Connected == [connected |-> TRUE, handler |-> "initializing", listening |-> FALSE]

\* io.on('connection'): a client connects; agents.has(socket.id) is false for
\* a new id and initializeAgent runs to its first await (agent.ts line 81)
Connection(s) ==
    /\ s \notin DOMAIN sockets
    /\ sockets' = sockets @@ (s :> Connected)
    /\ UNCHANGED agents
    /\ UNCHANGED <<analysisVars, providerVars>>

\* agent.ts lines 81-141: the wallet, the agentkit and the tools are made and
\* agents.set(socketId, ...) stores the agent; line 143 awaits once more
StoreAgent(s) ==
    /\ s \in DOMAIN sockets
    /\ sockets[s].handler = "initializing"
    /\ agents' = agents \cup {s}
    /\ sockets' = [sockets EXCEPT ![s].handler = "stored"]
    /\ UNCHANGED <<analysisVars, providerVars>>

\* an await of initializeAgent is rejected, before agents.set or after it:
\* lines 146-149 throw the error on and the connection handler ends there
InitializeFails(s) ==
    /\ s \in DOMAIN sockets
    /\ sockets[s].handler \in {"initializing", "stored"}
    /\ sockets' = [sockets EXCEPT ![s].handler = "rejected"]
    /\ UNCHANGED agents
    /\ UNCHANGED <<analysisVars, providerVars>>

\* initializeAgent returns: websocket/index.ts lines 20-90 emit 'connected'
\* and register the listeners, that of 'disconnect' among them
Listen(s) ==
    /\ s \in DOMAIN sockets
    /\ sockets[s].handler = "stored"
    /\ sockets' = [sockets EXCEPT ![s].handler = "returned", ![s].listening = TRUE]
    /\ UNCHANGED agents
    /\ UNCHANGED <<analysisVars, providerVars>>

\* the client disconnects: the 'disconnect' event reaches the listener of
\* lines 86-90, which calls removeAgent (agent.ts 160-163), if it is
\* registered by now, and nobody otherwise
Disconnect(s) ==
    /\ s \in DOMAIN sockets
    /\ sockets[s].connected
    /\ sockets' = [sockets EXCEPT ![s].connected = FALSE]
    /\ agents' = IF sockets[s].listening THEN agents \ {s} ELSE agents
    /\ UNCHANGED <<analysisVars, providerVars>>

InitServer == InitAnalysis /\ ~apiKey /\ ProvidersIdle /\ ServerIdle

NextServer ==
    \E s \in SocketIds :
        \/ Connection(s)
        \/ StoreAgent(s)
        \/ InitializeFails(s)
        \/ Listen(s)
        \/ Disconnect(s)

\* every await of a connection handler is settled in the end; clients
\* connect and disconnect as they like
SpecServer ==
    /\ InitServer
    /\ [][NextServer]_vars
    /\ \A s \in SocketIds :
          WF_vars(StoreAgent(s) \/ InitializeFails(s) \/ Listen(s))


-----------------------------------------------------------------------------
(* Properties *)

\* C1: when the getBalance read of a transaction with nonzero value fails, the
\* call still returns a report, which lacks only the high-value finding and
\* keeps the findings of the other checks (here the configuration change).
C1_BalanceFailureSkipsOnlyHighValue ==
    BalanceReadFailed =>
        /\ report.kind = "analysis"
        /\ ~HasTag(report.risk, "HighValue")
        /\ changesConfiguration(tx) => HasTag(report.risk, "ConfigChange")

\* C2: when a reputation lookup (new owner or destination) fails, the call
\* still returns a report and never the top-level error message.
C2_ReputationFailureDegrades ==
    ReputationFailed =>
        /\ ~IsError(result)
        /\ report.kind = "analysis"

\* C3: when getCode fails, a report is still returned and it holds none of the
\* contract-only and none of the EOA-only findings.
C3_CodeFailureUnknownType ==
    CodeReadFailed =>
        /\ report.kind = "analysis"
        /\ \A t \in {"SelfTransfer", "DirectEth", "Unverified", "NotOwner",
                     "LowReputationDestination"} : ~HasTag(report.risk, t)

\* C4: the verification lookup of a contract destination with a configured key
\* appends exactly one warning when it answers "unverified", appends no finding
\* and one note naming the contract when it answers "verified", appends nothing
\* when it fails or answers a non-success status, and in every case the
\* analysis goes on to return its report.
C4_VerificationOutcome ==
    /\ [][(pc = "verification" /\ explorer' # None) =>
            /\ pc' = "format"
            /\ ~IsError(result')
            /\ riskFactors' =
                 riskFactors \o (IF explorer' = "unverified"
                                 THEN <<Unverified(tx.to)>> ELSE <<>>)
            /\ actionDescription'.notes =
                 actionDescription.notes \o
                   (IF explorer' = "verified"
                    THEN <<NoteVerified("ContractName", tx.to)>> ELSE <<>>)]_vars
    /\ [](explorer # None =>
            /\ apiKey /\ isContract
            /\ ~IsError(result)
            /\ Finished =>
                 /\ report.kind = "analysis"
                 /\ Count(report.risk, "Unverified") =
                      (IF explorer = "unverified" THEN 1 ELSE 0))

C4_Witness ==
    /\ Reported /\ apiKey /\ isContract
    /\ explorer = Failure
    /\ ~HasTag(report.risk, "Unverified")

\* C5: when the hash is not in the pending set, no balance, code, reputation or
\* verification lookup is issued and the string returned to the caller is the
\* not-found message itself.
C5_NotFoundVerbatim ==
    (Finished /\ report.kind = "notFound") =>
        /\ \A c \in {"getBalance", "getCode", "reputation(newOwner)",
                     "reputation(to)", "fetch"} : ~Issued(c)
        /\ result = NotFoundMessage(args.safeTxHash)

\* C6: in every report the findings are in the order configuration change,
\* new-owner reputation, high value, self-transfer, direct ETH, non-owner,
\* destination reputation, verification.
CheckOrder ==
    <<"ConfigChange", "LowReputationOwner", "HighValue", "SelfTransfer", "DirectEth",
      "NotOwner", "LowReputationDestination", "Unverified">>
Rank(t) == CHOOSE i \in 1..Len(CheckOrder) : CheckOrder[i] = t
C6_FixedCheckOrder ==
    Reported =>
        \A i, j \in 1..Len(riskFactors) :
            i < j => Rank(riskFactors[i].tag) <= Rank(riskFactors[j].tag)

\* C7: a transaction whose decoded method is addOwnerWithThreshold, removeOwner
\* or changeThreshold gets a report that holds the configuration-change
\* warning exactly once (stated for the calls in which no external call fails).
C7_ConfigChangeExactlyOnce ==
    ( /\ Finished /\ TxFound
      /\ tx.dataDecoded.present
      /\ tx.dataDecoded.method \in {addOwnerWithThreshold, removeOwner, changeThreshold}
      /\ ~LookupFailed ) =>
        /\ report.kind = "analysis"
        /\ Count(report.risk, "ConfigChange") = 1

\* C8: the high-value warning is present if and only if tx.value > 0 and the
\* value is more than half of the balance read; never for a zero value.
C8_HighValueIffOverHalf ==
    /\ (TxFound /\ tx.value = 0) => ~HasTag(riskFactors, "HighValue")
    /\ balance # NoBalance =>
         (HasTag(riskFactors, "HighValue") <=> (tx.value > 0 /\ 2 * tx.value > balance))

\* C9: the report of a transfer call to a contract whose decoded destination
\* parameter is the contract itself holds exactly one critical finding, the
\* self-transfer one.
C9_SelfTransferOneCritical ==
    ( /\ Reported /\ isContract
      /\ tx.dataDecoded.present
      /\ tx.dataDecoded.method = transfer
      /\ DestinationIsTo(tx) ) =>
        /\ Cardinality(Criticals(report.risk)) = 1
        /\ \A i \in Criticals(report.risk) : report.risk[i] = SelfTransfer

C9_Witness ==
    /\ Reported /\ isContract
    /\ tx.dataDecoded.present
    /\ tx.dataDecoded.method = transfer
    /\ DestinationIsTo(tx)
    /\ tx.value > 0
    /\ HasTag(report.risk, "SelfTransfer")

\* C10: the direct-ETH critical finding is present, once, exactly when getCode
\* answered that `to` is a contract, tx.value > 0 and there is no decoded call;
\* it is in the report exactly when it was found.
C10_DirectEthExactlyWhen ==
    /\ Count(riskFactors, "DirectEth") <= 1
    /\ HasTag(riskFactors, "DirectEth") <=>
         (isContract /\ TxFound /\ tx.value > 0 /\ ~tx.dataDecoded.present)
    /\ Reported => (HasTag(report.risk, "DirectEth") <=> HasTag(riskFactors, "DirectEth"))

C10_Witness ==
    /\ Reported
    /\ isContract /\ tx.value > 0 /\ ~tx.dataDecoded.present
    /\ HasTag(report.risk, "DirectEth")

\* C11: once getCode has answered that `to` is not a contract, exactly one of
\* the two owner outcomes is recorded (the favorable note when `to` is one of
\* the owners, the not-a-Safe-owner warning otherwise); the reputation of `to`
\* is requested in both cases, and its answer alone decides between the
\* low-reputation warning (score < 20, carrying the score) and the favorable
\* note (score >= 20).
C11_OwnerAndReputationOfEOA ==
    ToIsEOA =>
        /\ Count(riskFactors, "NotOwner") + Count(notes, "IsSafeOwner") = 1
        /\ HasTag(notes, "IsSafeOwner") <=> ToIsOwner
        /\ pc # "destReputation" => Issued("reputation(to)")
        /\ Got("reputation(to)") =>
             IF AnswerOf("reputation(to)") < 20
             THEN /\ Count(riskFactors, "LowReputationDestination") = 1
                  /\ \A i \in 1..Len(riskFactors) :
                        riskFactors[i].tag = "LowReputationDestination" =>
                            riskFactors[i].score = AnswerOf("reputation(to)")
                  /\ ~HasTag(notes, "DestinationHighReputation")
             ELSE /\ ~HasTag(riskFactors, "LowReputationDestination")
                  /\ Count(notes, "DestinationHighReputation") = 1
        /\ ~Got("reputation(to)") =>
             /\ ~HasTag(riskFactors, "LowReputationDestination")
             /\ ~HasTag(notes, "DestinationHighReputation")

\* an owner with a low reputation: the favorable owner note and the
\* low-reputation warning in one report
C11_Witness ==
    /\ Reported /\ ToIsEOA /\ ToIsOwner
    /\ HasTag(notes, "IsSafeOwner")
    /\ HasTag(report.risk, "LowReputationDestination")

\* a report on a transaction of zero value and no call data to an address that
\* holds no code, is not an owner and has reputation score 80
ScenarioD ==
    /\ Reported /\ ToIsEOA /\ ~ToIsOwner
    /\ tx.value = 0 /\ tx.data = "0x" /\ ~tx.dataDecoded.present
    /\ Got("reputation(to)") /\ AnswerOf("reputation(to)") = 80

\* C12 as stated: the report on such a transaction has no risk finding and
\* its risk assessment is the no-significant-risk line.
C12_NoFindingForNonOwnerEOA ==
    ScenarioD => /\ riskFactors = <<>>
                 /\ report.risk = <<NoRisk>>

\* C12, amended: the report on such a transaction has exactly one risk
\* finding, the warning that the transfer address is not a Safe owner, and so
\* its risk assessment is that warning and not the no-significant-risk line;
\* the reputation adds only the favorable note.
C12_OneFindingForNonOwnerEOA ==
    ScenarioD => /\ riskFactors = <<NotOwner>>
                 /\ report.risk = <<NotOwner>>
                 /\ notes = <<NoteDestHighRep>>

C12_Witness == ScenarioD /\ ~HasTag(report.risk, "NoSignificantRisk")

\* an addOwnerWithThreshold transaction whose new owner's reputation was answered
AddOwnerScored ==
    /\ TxFound /\ tx.dataDecoded.present
    /\ tx.dataDecoded.method = addOwnerWithThreshold
    /\ Got("reputation(newOwner)")
\* finding f names address a
Names(f, a) == IF "owner" \in DOMAIN f THEN f.owner = a ELSE FALSE
NewOwnerWarnings == {i \in 1..Len(riskFactors) : riskFactors[i].tag = "LowReputationOwner"}

\* C13 as stated: for an AddOwner transaction a score below 20 adds one
\* low-reputation warning that names the new owner, and the report then holds
\* it together with the configuration-change warning; a score of 20 or more
\* adds no finding, only the favorable note.
C13_LowReputationNamesOwner ==
    AddOwnerScored =>
        IF AnswerOf("reputation(newOwner)") < 20
        THEN /\ Cardinality(NewOwnerWarnings) = 1
             /\ \A i \in NewOwnerWarnings :
                   Names(riskFactors[i], actionDescription.base.owner)
             /\ Reported => /\ HasTag(report.risk, "ConfigChange")
                            /\ HasTag(report.risk, "LowReputationOwner")
        ELSE /\ NewOwnerWarnings = {}
             /\ notes # <<>> /\ notes[1] = NoteOwnerHighRep

\* C13, amended: for an AddOwner transaction a score below 20 adds one
\* low-reputation warning that states the score and not the new owner's
\* address, which only the action description of the report names; the report
\* then holds that warning together with the configuration-change warning.  A
\* score of 20 or more adds no finding, only the favorable note.
C13_LowReputationStatesScore ==
    AddOwnerScored =>
        /\ actionDescription.base.kind = "AddOwner"
        /\ actionDescription.base.owner = paramValue(tx.dataDecoded.parameters, 0)
        /\ IF AnswerOf("reputation(newOwner)") < 20
           THEN /\ Cardinality(NewOwnerWarnings) = 1
                /\ \A i \in NewOwnerWarnings :
                      /\ riskFactors[i] = LowRepOwner(AnswerOf("reputation(newOwner)"))
                      /\ ~Names(riskFactors[i], actionDescription.base.owner)
                /\ ~HasTag(notes, "OwnerHighReputation")
                /\ Reported => /\ Count(report.risk, "ConfigChange") = 1
                               /\ Count(report.risk, "LowReputationOwner") = 1
                               /\ report.action.base.owner = actionDescription.base.owner
           ELSE /\ NewOwnerWarnings = {}
                /\ notes # <<>> /\ notes[1] = NoteOwnerHighRep
                /\ Count(notes, "OwnerHighReputation") = 1

\* the scenario of the claim: score 5, both warnings in the report
C13_Witness ==
    /\ Reported /\ AddOwnerScored
    /\ AnswerOf("reputation(newOwner)") = 5
    /\ HasTag(report.risk, "ConfigChange")
    /\ HasTag(report.risk, "LowReputationOwner")

Classifications ==
    {"AddOwner", "RemoveOwner", "ChangeThreshold", "EnableModule", "Transfer", "Call",
     "Unknown"}
\* decoding is over: the transaction was found and lines 74-112 were left,
\* otherwise than by a rejected reputation request
DecodingOver ==
    /\ TxFound /\ pc # "decode"
    /\ ~(Finished /\ IsError(result) /\ LastCall = "reputation(newOwner)")

\* C14: decoding a found transaction never throws, whatever its decoded data
\* (absent, an unknown method, a known method with a parameter list that is
\* missing, empty or too short), and leaves exactly one classification.
C14_ClassificationTotal ==
    /\ ~(IsError(result) /\ result.error = "TypeError")
    /\ DecodingOver => actionDescription.base.kind \in Classifications

\* the methods lines 87-102 decode
KnownSafeMethods == {addOwnerWithThreshold, removeOwner, changeThreshold, enableModule}

\* C15: a transaction whose decoded method is not one of the known Safe
\* methods is described as a transfer only if its value is nonzero and its data
\* is empty; with an unrecognized method, nonzero value and non-empty data it
\* is described as a call of that method.
C15_TransferOnlyWithoutData ==
    ( /\ DecodingOver
      /\ tx.dataDecoded.present => tx.dataDecoded.method \notin KnownSafeMethods ) =>
        /\ actionDescription.base.kind = "Transfer" =>
              (tx.value # 0 /\ tx.data = "0x")
        /\ (tx.dataDecoded.present /\ tx.value # 0 /\ tx.data # "0x") =>
              /\ actionDescription.base.kind = "Call"
              /\ actionDescription.base.method = tx.dataDecoded.method

\* C16: a transaction with value 0 and empty data is never described as a
\* transfer or as a call, its analysis never reads the Safe balance, and no
\* high-value finding is made or reported for it.
C16_ZeroValueNoTransfer ==
    (TxFound /\ tx.value = 0 /\ tx.data = "0x") =>
        /\ actionDescription.base.kind \notin {"Transfer", "Call"}
        /\ DecodingOver => actionDescription.base.kind = "Unknown"
        /\ ~Issued("getBalance")
        /\ ~HasTag(riskFactors, "HighValue")
        /\ Reported => /\ report.action.base.kind = "Unknown"
                       /\ ~HasTag(report.risk, "HighValue")

C16_Witness ==
    /\ Reported /\ tx.value = 0 /\ tx.data = "0x"
    /\ report.action.base.kind = "Unknown"
    /\ balance = NoBalance

\* C17: the explorer lookup (fetch) is issued only with an API key configured
\* and only after getCode has answered that `to` is a contract; it is never
\* issued for a destination without code, nor without a key, and an answer of
\* the explorer is held exactly when the lookup was issued.
C17_LookupOnlyForContractWithKey ==
    /\ \A i \in 1..Len(calls) :
          calls[i] = "fetch" =>
             /\ apiKey /\ isContract
             /\ \E j \in 1..(i - 1) : calls[j] = "getCode"
             /\ Got("getCode") /\ AnswerOf("getCode")
    /\ ToIsEOA => ~Issued("fetch")
    /\ ~apiKey => ~Issued("fetch")
    /\ (explorer # None) <=> Issued("fetch")

\* without a key, the analysis of a transaction to a contract completes and
\* the lookup was not issued
C17_Witness ==
    /\ Reported /\ ~apiKey /\ isContract
    /\ Issued("getCode") /\ ~Issued("fetch")

\* the findings of a report, as a set
FindingSet(r) == {r.risk[i] : i \in 1..Len(r.risk)} \ {NoRisk}
\* the second call has returned; the first ran without an API key, the second
\* with one, and the explorer, where it was asked, answered "verified".  Every
\* other lookup answered the second call as it answered the first.
KeyAddedAndVerified ==
    /\ repeated /\ Finished
    /\ ~previous.apiKey /\ apiKey
    /\ explorer \in {None, "verified"}

\* C18: for one transaction and the same answers of the other lookups, every
\* finding of the report made without an API key is a finding of the report
\* made with a key and a "verified" answer.
C18_NoKeyAddsNoFinding ==
    (KeyAddedAndVerified /\ previous.report.kind = "analysis") =>
        /\ report.kind = "analysis"
        /\ FindingSet(previous.report) \subseteq FindingSet(report)

\* a transaction to a contract, with a finding, analyzed without and then with
\* the key
C18_Witness ==
    /\ KeyAddedAndVerified /\ previous.report.kind = "analysis"
    /\ explorer = "verified"
    /\ FindingSet(previous.report) # {}

\* C19: every report holds, in this order, the overview (proposer, proposal
\* time, confirmation status, confirming addresses) taken from the transaction,
\* the action description and the risk assessment; the risk assessment is the
\* no-significant-risk line exactly when no finding was made, and the list of
\* findings otherwise.
C19_ReportSections ==
    Reported =>
        /\ report.sections = <<"Proposed by", "Proposed at", "Status", "Confirmed by",
                               "Action", "Risk Assessment">>
        /\ report.proposer = tx.proposer
        /\ report.proposedAt.date = tx.submissionDate
        /\ report.status = [confirmations |-> Len(tx.confirmations),
                            required |-> tx.confirmationsRequired]
        /\ report.confirmedBy =
              (IF tx.confirmations # <<>> THEN tx.confirmations ELSE <<"none">>)
        /\ report.action = actionDescription
        /\ report.action.base.kind \in Classifications
        /\ HasTag(report.risk, "NoSignificantRisk") <=> riskFactors = <<>>
        /\ riskFactors = <<>> => report.risk = <<NoRisk>>
        /\ riskFactors # <<>> => report.risk = riskFactors
        /\ result = FoundMessage(args.safeTxHash, report)

\* a report without a finding
C19_Witness ==
    /\ Reported /\ riskFactors = <<>>
    /\ report.risk = <<NoRisk>>
    /\ report.action.base.kind = "Call"

\* the second call has returned, with the API key as it was in the first call;
\* every lookup answered the second call as it answered the first
SameCallTwice == repeated /\ Finished /\ previous.apiKey = apiKey

\* C20: a second call with the same hash, for which the pending transaction,
\* the owners and every lookup answer as in the first call, returns what the
\* first call returned: the same report (description and findings, in the same
\* order) in the same string.
C20_SameInputsSameReport ==
    SameCallTwice =>
        /\ report = previous.report
        /\ result = previous.result

\* two reports, each with the same several findings and a verification lookup
C20_Witness ==
    /\ SameCallTwice /\ Reported
    /\ previous.report.kind = "analysis"
    /\ Len(report.risk) >= 2
    /\ Issued("fetch")


\* C26: the configuration-change warning is emitted only for the AddOwner,
\* RemoveOwner and ChangeThreshold classifications: a transaction with any
\* other decoded method (enableModule, a token transfer, a method of another
\* contract whose name merely contains "Owner") never gets it.
C26_ConfigChangeOnlyForConfigMethods ==
    (DecodingOver /\ HasTag(riskFactors, "ConfigChange")) =>
        actionDescription.base.kind \in {"AddOwner", "RemoveOwner", "ChangeThreshold"}


\* C21: every action of the provider returns a string and never throws: when
\* an underlying call fails, the action returns one message that starts with
\* the name of the operation, followed by the error.
C21_ActionsReturnPrefixedErrors ==
    \A k \in Made :
        /\ k.state # "thrown"
        /\ (HasReturned(k) /\ k.rejected # None) =>
               k.result = [prefix |-> Prefix(k.name), kind |-> "error",
                           detail |-> [message |-> k.rejected]]
C21_Witness ==
    \E k \in Made :
        /\ HasReturned(k) /\ k.name = "executePending"
        /\ k.rejected = "executeTransaction"
        /\ k.result.prefix = "Execute pending"

\* C24: in add_signer, remove_signer, change_threshold, withdraw_eth,
\* enable_allowance_module and set_allowance a Safe whose threshold is above 1
\* has the transaction proposed and never executed, a Safe whose threshold is
\* 1 has it executed and never proposed, and a call that reports success did
\* exactly the one it reports.
C24_ProposeOrExecuteByThreshold ==
    \A k \in Made :
        k.name \in Gated =>
            /\ SafeOf(k).threshold > 1 => Requests(k, "executeTransaction") = {}
            /\ SafeOf(k).threshold = 1 => Requests(k, "proposeTransaction") = {}
            /\ (HasReturned(k) /\ k.result.kind = "proposed") =>
                   /\ Cardinality(Requests(k, "proposeTransaction")) = 1
                   /\ Requests(k, "executeTransaction") = {}
            /\ (HasReturned(k) /\ k.result.kind = "executed") =>
                   /\ Cardinality(Requests(k, "executeTransaction")) = 1
                   /\ Requests(k, "proposeTransaction") = {}
            /\ (HasReturned(k) /\ k.result.kind \notin {"error", "already enabled"}) =>
                   BySuccessMessage(k)
C24_Witness ==
    \E k \in Made :
        /\ k.name = "withdrawEth" /\ BySuccessMessage(k)
        /\ SafeOf(k).threshold > 1
        /\ Requests(k, "proposeTransaction") # {}

\* C25: remove_signer creates, proposes and executes no transaction for a Safe
\* with a single owner, and a removal transaction created without newThreshold
\* carries a threshold between 1 and owners - 1, which is the current
\* threshold whenever that is at most owners - 1.
C25_RemovalKeepsValidThreshold ==
    \A k \in Made :
        k.name = "removeSigner" =>
            LET n == Len(SafeOf(k).owners)
                current == SafeOf(k).threshold
            IN  /\ n <= 1 =>
                       \A i \in 1..Len(k.ops) :
                           k.ops[i].op \notin
                               {"createRemoveOwnerTx", "proposeTransaction",
                                "executeTransaction"}
                /\ ~k.newThreshold.present =>
                       \A i \in Requests(k, "createRemoveOwnerTx") :
                           LET t == k.ops[i].with.threshold
                           IN  /\ 1 <= t /\ t <= n - 1
                               /\ current <= n - 1 => t = current
C25_Witness ==
    \E k \in Made :
        /\ k.name = "removeSigner" /\ BySuccessMessage(k)
        /\ ~k.newThreshold.present
        /\ SafeOf(k).threshold = Len(SafeOf(k).owners)
        /\ k.safeTransaction.made
        /\ k.safeTransaction.threshold = Len(SafeOf(k).owners) - 1

\* C30: the threshold stated in the message remove_signer returns is the
\* threshold of the removal transaction it created.
C30_MessageStatesTransactionThreshold ==
    \A k \in Made :
        (k.name = "removeSigner" /\ BySuccessMessage(k)) =>
            k.result.detail.threshold = k.safeTransaction.threshold

\* the signatures transaction t of the Safe of call k can be executed with:
\* its confirmations, and the agent's own if the agent is an owner of the
\* Safe that has not confirmed
Signatures(k, t) ==
    Len(t.confirmations) +
        (IF /\ \E i \in 1..Len(SafeOf(k).owners) :
                   toLowerCase(SafeOf(k).owners[i]) = toLowerCase(AgentAddress)
            /\ ~hasAgentSigned(t)
         THEN 1 ELSE 0)

\* C23: execute_pending never calls executeTransaction on a transaction whose
\* confirmations, with the agent's own signature counted only when the agent
\* is an owner that has not confirmed, are fewer than confirmationsRequired;
\* the other unexecuted transactions are counted as skipped.
C23_ExecutesOnlyConfirmed ==
    \A k \in Made :
        k.name = "executePending" =>
            \A i \in Requests(k, "executeTransaction") :
                Signatures(k, k.ops[i].with) >= k.ops[i].with.confirmationsRequired

\* C29: the message execute_pending returns accounts for every transaction
\* the call executed, also when a later executeTransaction failed.
C29_ResultReportsExecuted ==
    \A k \in Made :
        (k.name = "executePending" /\ HasReturned(k) /\ k.executedTxs # <<>>) =>
            /\ k.result.kind = "complete"
            /\ k.result.detail.executed = k.executedTxs


\* the calls in flight or returned other than that of handler h
Others(h) == {inflight[g] : g \in DOMAIN inflight \ {h}}
\* every request call k made on a Safe client was made on a client of the
\* Safe the call is about
OnOwnClient(k) ==
    \A i \in 1..Len(k.ops) : k.ops[i].on # None => k.ops[i].on = k.safeAddress

\* C27: when two actions for different Safes are in flight in one provider,
\* every request an action makes on a Safe client is made on a client
\* connected to the action's own Safe.
C27_ClientOfOwnSafe ==
    \A h \in DOMAIN inflight :
        \A o \in Others(h) :
            (o.session = inflight[h].session /\ o.safeAddress # inflight[h].safeAddress) =>
                OnOwnClient(inflight[h])

\* the report an analyze call returns when no other call runs: that of
\* riskAnalysis for the owners of the Safe of the call
ReportAlone(k) ==
    Message("analyzeTransaction", "found",
            [safeAddress |-> k.safeAddress, safeTxHash |-> k.safeTxHash,
             owners |-> SafeOf(k).owners])

\* the field safeClient of the provider of session s is null or was stored
\* by a call of session s
OwnField(s) ==
    fieldOf(s) # None =>
        \E k \in Made : k.session = s /\ k.safeAddress = fieldOf(s)

\* C22: analyze calls of different sessions share no state: the client a
\* session's provider holds was stored by a call of that session, and however
\* two analyze calls of different sessions interleave, each makes its requests
\* on its own client and returns the report it returns when run alone.
C22_SessionsShareNothing ==
    /\ \A s \in Sessions : OwnField(s)
    /\ \A h \in DOMAIN inflight :
          LET k == inflight[h]
          IN  (k.name = "analyzeTransaction"
               /\ \A o \in Others(h) :
                      o.session # k.session /\ o.name = "analyzeTransaction") =>
                  /\ OnOwnClient(k)
                  /\ (HasReturned(k) /\ k.rejected = None) => k.result = ReportAlone(k)
C22_Witness ==
    /\ DOMAIN inflight = Handlers
    /\ \A h \in Handlers :
          /\ inflight[h].name = "analyzeTransaction"
          /\ HasReturned(inflight[h]) /\ inflight[h].result.kind = "found"
    /\ inflight["silent-request"].overlaps
    /\ inflight["silent-request"].session # inflight["chat-message"].session
    /\ inflight["silent-request"].safeAddress # inflight["chat-message"].safeAddress
    /\ inflight["silent-request"].result = ReportAlone(inflight["silent-request"])


\* socket s has disconnected and its initializeAgent call is over
GoneAndInitialized(s) ==
    /\ s \in DOMAIN sockets
    /\ ~sockets[s].connected
    /\ sockets[s].handler \in {"returned", "rejected"}

\* C28: no agent outlives its socket: once a socket has disconnected and its
\* initializeAgent call has completed, the agents map eventually holds no
\* entry for the socket, also when the socket disconnected while
\* initializeAgent was running.
C28_NoAgentOutlivesSocket ==
    \A s \in SocketIds : GoneAndInitialized(s) ~> (s \notin agents)

=============================================================================
